---------------------------- MODULE Spec2Model ----------------------------
(***************************************************************************)
(* Model of scripts/ml/train_categorizer.py: the text normalisation and    *)
(* bank encoding functions, and the batch pipeline main() with its output  *)
(* directory.                                                              *)
(*                                                                         *)
(* A Python str is a sequence of characters; a character is a one-element  *)
(* string, except the non-ASCII code points the model uses, which are      *)
(* written by their code point name ("U+00E3").                            *)
(***************************************************************************)
EXTENDS Integers, Sequences, FiniteSets, TLC

(***************************************************************************)
(* Configuration (lines 46-58)                                             *)
(***************************************************************************)
MIN_SAMPLES_PER_CLASS == 3
MIN_TOTAL_SAMPLES == 50
\* TEST_SIZE = 0.2 is the fraction 1/TEST_SIZE_DEN. For every n < 100000 the
\* double product n * 0.2 has the floor and the ceiling of the exact n / 5.
TEST_SIZE_DEN == 5
\* the literal 10 of "if len(df_pj) >= 10" and "if len(df_pf) >= 10"
MIN_SUBMODEL_ROWS == 10

BANCOS_CONHECIDOS ==
  << <<"N","U","B","A","N","K">>,
     <<"M","E","R","C","A","D","O"," ","P","A","G","O">>,
     <<"C","6">>,
     <<"I","T","A","U">>,
     <<"S","A","N","T","A","N","D","E","R">>,
     <<"P","I","C","P","A","Y">>,
     <<"X","P">>,
     <<"R","E","N","N","E","R">>,
     <<"B","R","A","D","E","S","C","O">>,
     <<"I","N","T","E","R">>,
     <<"C","A","I","X","A">> >>

(***************************************************************************)
(* Characters and the str / re / unicodedata primitives the code calls     *)
(***************************************************************************)
\* None, where the code expects a str or a list: a sequence no character
\* sequence equals
None == <<"None">>

LowerLetters ==
  <<"a","b","c","d","e","f","g","h","i","j","k","l","m",
    "n","o","p","q","r","s","t","u","v","w","x","y","z">>
UpperLetters ==
  <<"A","B","C","D","E","F","G","H","I","J","K","L","M",
    "N","O","P","Q","R","S","T","U","V","W","X","Y","Z">>

Range(f) == {f[i] : i \in DOMAIN f}

\* U+00E3 is a-tilde, U+00C3 is A-tilde, U+00FA is u-acute, U+00DA is U-acute;
\* U+0303 and U+0301 are the combining tilde and the combining acute accent.
IsDigit(c) == c \in {"0","1","2","3","4","5","6","7","8","9"}
IsSpace(c) == c \in {" ", "\t"}
IsLetter(c) ==
  c \in Range(LowerLetters) \cup Range(UpperLetters)
        \cup {"U+00E3", "U+00C3", "U+00FA", "U+00DA"}
IsCombining(c) == c \in {"U+0303", "U+0301"}
\* \w of a str pattern: letters, digits and the underscore
IsWord(c) == IsLetter(c) \/ IsDigit(c) \/ c = "_"

\* str.upper(), one character
UpperChar(c) ==
  IF c \in Range(LowerLetters)
  THEN UpperLetters[CHOOSE i \in DOMAIN LowerLetters : LowerLetters[i] = c]
  ELSE IF c = "U+00E3" THEN "U+00C3"
  ELSE IF c = "U+00FA" THEN "U+00DA"
  ELSE c

Upper(s) == [i \in DOMAIN s |-> UpperChar(s[i])]

\* unicodedata.normalize("NFD", .), one character
DecomposeChar(c) ==
  IF c = "U+00C3" THEN <<"A", "U+0303">>
  ELSE IF c = "U+00E3" THEN <<"a", "U+0303">>
  ELSE IF c = "U+00DA" THEN <<"U", "U+0301">>
  ELSE IF c = "U+00FA" THEN <<"u", "U+0301">>
  ELSE <<c>>

RECURSIVE NFD(_)
NFD(s) == IF s = <<>> THEN <<>> ELSE DecomposeChar(Head(s)) \o NFD(Tail(s))

\* re.sub(r"[\u0300-\u036f]", "", .)
StripMarks(s) == SelectSeq(s, LAMBDA c : ~IsCombining(c))

RECURSIVE LStrip(_)
LStrip(s) == IF s # <<>> /\ IsSpace(Head(s)) THEN LStrip(Tail(s)) ELSE s

RECURSIVE RStrip(_)
RStrip(s) ==
  IF s # <<>> /\ IsSpace(s[Len(s)]) THEN RStrip(SubSeq(s, 1, Len(s) - 1)) ELSE s

\* str.strip()
Strip(s) == RStrip(LStrip(s))

\* \b between s[p] and s[p+1] (p = 0 is the start, p = Len(s) the end)
WordAt(s, p) == p >= 1 /\ p <= Len(s) /\ IsWord(s[p])
WordBoundary(s, p) == WordAt(s, p) # WordAt(s, p + 1)

DigitAt(s, p) == p >= 1 /\ p <= Len(s) /\ IsDigit(s[p])

\* the last index of the run of digits that starts at i
RECURSIVE DigitRunEnd(_, _)
DigitRunEnd(s, i) == IF DigitAt(s, i + 1) THEN DigitRunEnd(s, i + 1) ELSE i

StartsWith(s, p) == Len(s) >= Len(p) /\ SubSeq(s, 1, Len(p)) = p

\* re.sub(r"\b\d{4,}\b", "", .): scanning from i, a maximal digit run of four
\* or more digits with a word boundary on both sides is dropped
RECURSIVE RemoveCardNumbersFrom(_, _)
RemoveCardNumbersFrom(s, i) ==
  IF i > Len(s) THEN <<>>
  ELSE LET j == DigitRunEnd(s, i)
       IN IF /\ IsDigit(s[i])
             /\ WordBoundary(s, i - 1)
             /\ j - i + 1 >= 4
             /\ WordBoundary(s, j)
          THEN RemoveCardNumbersFrom(s, j + 1)
          ELSE <<s[i]>> \o RemoveCardNumbersFrom(s, i + 1)

\* re.sub(r"\d{3,}", "", .): any run of three or more digits is dropped
RECURSIVE RemoveDigitRunsFrom(_, _)
RemoveDigitRunsFrom(s, i) ==
  IF i > Len(s) THEN <<>>
  ELSE LET j == DigitRunEnd(s, i)
       IN IF IsDigit(s[i]) /\ j - i + 1 >= 3
          THEN RemoveDigitRunsFrom(s, j + 1)
          ELSE <<s[i]>> \o RemoveDigitRunsFrom(s, i + 1)

RemoveCardNumbers_AnyRun(s) == RemoveDigitRunsFrom(s, 1)

RemoveCardNumbers(s) == RemoveCardNumbersFrom(s, 1)

\* the optional group (/\d{2,4})? followed by \b, tried greedily from i (the
\* index of the last digit of DD/MM): the index where the match ends, 0 if none
DateTail(s, i) ==
  LET Group(k) == /\ i + 1 <= Len(s) /\ s[i + 1] = "/"
                  /\ \A d \in 1..k : DigitAt(s, i + 1 + d)
                  /\ WordBoundary(s, i + 1 + k)
  IN IF Group(4) THEN i + 5
     ELSE IF Group(3) THEN i + 4
     ELSE IF Group(2) THEN i + 3
     ELSE IF WordBoundary(s, i) THEN i
     ELSE 0

\* \b\d{2}/\d{2}(/\d{2,4})?\b matched at i: the index where it ends, 0 if none
DateMatchEnd(s, i) ==
  IF /\ WordBoundary(s, i - 1)
     /\ DigitAt(s, i) /\ DigitAt(s, i + 1)
     /\ i + 2 <= Len(s) /\ s[i + 2] = "/"
     /\ DigitAt(s, i + 3) /\ DigitAt(s, i + 4)
  THEN DateTail(s, i + 4)
  ELSE 0

\* re.sub(r"\b\d{2}/\d{2}(/\d{2,4})?\b", "", .)
RECURSIVE RemoveDatesFrom(_, _)
RemoveDatesFrom(s, i) ==
  IF i > Len(s) THEN <<>>
  ELSE LET e == DateMatchEnd(s, i)
       IN IF e > 0 THEN RemoveDatesFrom(s, e + 1)
          ELSE <<s[i]>> \o RemoveDatesFrom(s, i + 1)

RemoveDates(s) == RemoveDatesFrom(s, 1)

GATEWAY == <<"G","A","T","E","W","A","Y","*">>
PICPAY == <<"P","I","C","P","A","Y","*">>

\* re.sub(r"^NAME\*", repl, .), or re.sub(r"^NAME\s?\*", repl, .) with optSpace
SubPrefix(s, name, optSpace, repl) ==
  LET n == Len(name)
  IN IF StartsWith(s, name \o <<"*">>)
     THEN repl \o SubSeq(s, n + 2, Len(s))
     ELSE IF /\ optSpace
             /\ StartsWith(s, name)
             /\ Len(s) >= n + 2
             /\ IsSpace(s[n + 1])
             /\ s[n + 2] = "*"
     THEN repl \o SubSeq(s, n + 3, Len(s))
     ELSE s

\* the eight prefix substitutions of lines 83-90, in their order
GatewayRules ==
  << [name |-> <<"D","L">>, optSpace |-> FALSE, repl |-> GATEWAY],
     [name |-> <<"M","P">>, optSpace |-> TRUE, repl |-> GATEWAY],
     [name |-> <<"P","A","G">>, optSpace |-> FALSE, repl |-> GATEWAY],
     [name |-> <<"I","F","D">>, optSpace |-> FALSE, repl |-> GATEWAY],
     [name |-> <<"E","C">>, optSpace |-> TRUE, repl |-> GATEWAY],
     [name |-> <<"E","B","N">>, optSpace |-> FALSE, repl |-> GATEWAY],
     [name |-> <<"P","G">>, optSpace |-> TRUE, repl |-> GATEWAY],
     [name |-> <<"P","I","C","P","A","Y">>, optSpace |-> FALSE, repl |-> PICPAY] >>

RECURSIVE ApplyGatewayRules(_, _)
ApplyGatewayRules(s, k) ==
  IF k > Len(GatewayRules) THEN s
  ELSE LET r == GatewayRules[k]
       IN ApplyGatewayRules(SubPrefix(s, r.name, r.optSpace, r.repl), k + 1)

NormalizeGateway(s) == ApplyGatewayRules(s, 1)

\* re.sub(r"\s+", " ", .)
RECURSIVE CollapseSpaces(_)
CollapseSpaces(s) ==
  IF s = <<>> THEN <<>>
  ELSE IF IsSpace(Head(s))
  THEN <<" ">> \o CollapseSpaces(LStrip(s))
  ELSE <<Head(s)>> \o CollapseSpaces(Tail(s))

\* normalize_description(text); None and "" are falsy
normalize_description(text) ==
  IF text = None \/ text = <<>> THEN <<>>
  ELSE LET upper == Strip(Upper(text))
           noacc == StripMarks(NFD(upper))
           nocard == RemoveCardNumbers(noacc)
           nodate == RemoveDates(nocard)
           gateway == NormalizeGateway(nodate)
       IN Strip(CollapseSpaces(gateway))

\* "b.upper() in banco_norm"
IsSubstring(p, s) ==
  \E i \in 1..(Len(s) - Len(p) + 1) : SubSeq(s, i, i + Len(p) - 1) = p

Desconhecido == <<"d","e","s","c","o","n","h","e","c","i","d","o">>

\* the loop of lines 104-107 without its break
RECURSIVE EncodeLoop_NoBreak(_, _, _, _)
EncodeLoop_NoBreak(banco_norm, bancos_list, vec, i) ==
  IF i > Len(bancos_list) THEN vec
  ELSE IF IsSubstring(Upper(bancos_list[i]), banco_norm)
  THEN EncodeLoop_NoBreak(banco_norm, bancos_list, [vec EXCEPT ![i] = 1], i + 1)
  ELSE EncodeLoop_NoBreak(banco_norm, bancos_list, vec, i + 1)

\* the loop of lines 104-107 from index i on, vec being the vector so far
RECURSIVE EncodeLoop(_, _, _, _)
EncodeLoop(banco_norm, bancos_list, vec, i) ==
  IF i > Len(bancos_list) THEN vec
  ELSE IF IsSubstring(Upper(bancos_list[i]), banco_norm)
  THEN [vec EXCEPT ![i] = 1]
  ELSE EncodeLoop(banco_norm, bancos_list, vec, i + 1)

\* encode_banco(banco, bancos_list)
encode_banco(banco, bancos_list) ==
  LET b == IF banco = None \/ banco = <<>> THEN Desconhecido ELSE banco
      banco_norm == StripMarks(NFD(Upper(b)))
  IN EncodeLoop(banco_norm, bancos_list, [i \in 1..Len(bancos_list) |-> 0], 1)

(***************************************************************************)
(* State                                                                   *)
(***************************************************************************)
VARIABLES
  arg,        \* the argument of the pure function under check
  res,        \* its result
  res2,       \* normalize_description applied to res
  step,       \* "in", "once", "twice"; "idle" outside the function checks
  pc,         \* the position of main()
  run,        \* the number of the current run of main()
  fetch,      \* how fetch_training_data ended: "none", "conn_error", "http_error", "ok"
  dados,      \* the record list fetch_training_data returned
  df,         \* the DataFrame of prepare_dataset: rows with their index label
  X_full,     \* the rows of the combined feature matrix, by position
  df_sub,     \* df_pj, df_pf
  X_sub,      \* X_pj, X_pf
  labels,     \* pj_labels, pf_labels
  clf,        \* clf_tipo, clf_pj, clf_pf
  split,      \* the partition sizes train_test_split produced, per model
  exported,   \* the list exported
  files,      \* the output directory: file name -> content
  files0,     \* the output directory as the current run found it
  written,    \* the files this run has written, in the order of the writes
  exit_code,  \* the process exit status, -1 while main() runs
  error       \* the exception that ended the run, "" if none

fnvars == <<arg, res, res2, step>>
mainvars == <<pc, run, fetch, dados, df, X_full, df_sub, X_sub, labels, clf,
              split, exported, files, files0, written, exit_code, error>>
vars == <<arg, res, res2, step, pc, run, fetch, dados, df, X_full, df_sub,
          X_sub, labels, clf, split, exported, files, files0, written, exit_code,
          error>>

Models == {"pj", "pf"}

\* the state of main() before its first statement, over the directory fs
MainStart(r, fs) ==
  /\ pc = "start"
  /\ run = r
  /\ fetch = "none"
  /\ dados = <<>>
  /\ df = <<>>
  /\ X_full = <<>>
  /\ df_sub = [s \in Models |-> <<>>]
  /\ X_sub = [s \in Models |-> None]
  /\ labels = [s \in Models |-> <<>>]
  /\ clf = [m \in Models \cup {"tipo"} |-> None]
  /\ split = [m \in Models \cup {"tipo"} |-> None]
  /\ exported = <<>>
  /\ files = fs
  /\ files0 = fs
  /\ written = <<>>
  /\ exit_code = -1
  /\ error = ""

NoFiles == [n \in {} |-> <<>>]

FnIdle == arg = <<>> /\ res = <<>> /\ res2 = <<>> /\ step = "idle"

(***************************************************************************)
(* normalize_description and encode_banco on bounded inputs                *)
(***************************************************************************)
MaxTokens == 3
MaxBancoTokens == 3

DescTokens ==
  { <<"1","2","3","4">>, <<"1","2","/","0","5">>, <<"/","2","4">>,
    <<" ">>, <<"\t">>, <<"*">>, <<"P","A","G","*">>, <<"M","P">>,
    <<"l","o","j","a">>, <<"U+00E3">>, <<"x">> }

BancoTokens ==
  { <<"n","u","b","a","n","k">>, <<"I","T","A","U">>, <<"i","t","a","U+00FA">>,
    <<"C","6">>, <<" ">>, <<"I","N","T","E","R">>, <<"X","P">>,
    <<"M","E","R","C","A","D","O">>, <<"P","A","G","O">>,
    <<"P","i","c","P","a","y">> }

RECURSIVE Concat(_)
Concat(ts) == IF ts = <<>> THEN <<>> ELSE Head(ts) \o Concat(Tail(ts))

\* the texts made of at most n tokens of T
Texts(T, n) == UNION { {Concat(ts) : ts \in [1..k -> T]} : k \in 0..n }

ScenarioC ==
  <<"P","A","G","*","L","O","J","A","1","2","3"," ","1","2","/","0","5"," ",
    "4","5","6","7","8","9","0","1","2","3">>

DescInputs == Texts(DescTokens, MaxTokens) \cup {None, ScenarioC}
BancoInputs == Texts(BancoTokens, MaxBancoTokens) \cup {None}

InitNorm ==
  /\ arg \in DescInputs
  /\ res = <<>> /\ res2 = <<>> /\ step = "in"
  /\ MainStart(0, NoFiles)

NormalizeOnce ==
  /\ step = "in"
  /\ res' = normalize_description(arg)
  /\ step' = "once"
  /\ UNCHANGED <<arg, res2>>
  /\ UNCHANGED mainvars

NormalizeTwice ==
  /\ step = "once"
  /\ res2' = normalize_description(res)
  /\ step' = "twice"
  /\ UNCHANGED <<arg, res>>
  /\ UNCHANGED mainvars

NextNorm == NormalizeOnce \/ NormalizeTwice

SpecNorm == InitNorm /\ [][NextNorm]_vars

InitBanco ==
  /\ arg \in BancoInputs
  /\ res = <<>> /\ res2 = <<>> /\ step = "in"
  /\ MainStart(0, NoFiles)

EncodeBanco ==
  /\ step = "in"
  /\ res' = encode_banco(arg, BANCOS_CONHECIDOS)
  /\ step' = "once"
  /\ UNCHANGED <<arg, res2>>
  /\ UNCHANGED mainvars

NextBanco == EncodeBanco

SpecBanco == InitBanco /\ [][NextBanco]_vars

(***************************************************************************)
(* The data source: record lists made of blocks of equal records           *)
(***************************************************************************)
Rec(desc, cat, tipo, banco, valor, metodo) ==
  [descricao |-> desc, categoria |-> cat, tipo |-> tipo, banco |-> banco,
   valor |-> valor, metodo |-> metodo]

RecA == Rec(<<"L","o","j","a"," ","A">>, <<"A">>, "PJ", <<"N","u","b","a","n","k">>, -120, "manual")
\* a type that is neither PJ nor PF
RecB == Rec(<<"P","A","G","*","B">>, <<"B">>, "", <<"I","t","a","U+00FA">>, 35, "auto")
RecC == Rec(<<"M","e","r","c","a","d","o">>, <<"C">>, "PF", None, -8, "auto")
RecD == Rec(<<"U","b","e","r">>, <<"D">>, "PF", <<"C","6">>, -19, "manual")
\* a description that normalises to the empty string
RecNoDesc == Rec(<<"1","2","3","4">>, <<"A">>, "PJ", None, -1, "auto")
\* an empty category
RecNoCat == Rec(<<"L","o","j","a">>, <<>>, "PF", None, -1, "auto")

Repeat(r, n) == [i \in 1..n |-> r]

\* the numbers of A and B records, and of C and D records, of a record list
CountsAB == { <<39, 10>>, <<40, 10>>, <<55, 0>>, <<45, 2>> }
CountsCD == { <<0, 0>>, <<1, 0>>, <<5, 0>>, <<11, 0>>, <<11, 4>> }
Drops == { "none", "first", "last" }

Dataset(ab, cd, drop) ==
  (IF drop = "first" THEN <<RecNoDesc>> ELSE <<>>)
  \o Repeat(RecA, ab[1]) \o Repeat(RecB, ab[2])
  \o Repeat(RecC, cd[1]) \o Repeat(RecD, cd[2])
  \o (IF drop = "last" THEN <<RecNoCat>> ELSE <<>>)

Datasets == { Dataset(ab, cd, drop) : ab \in CountsAB, cd \in CountsCD, drop \in Drops }

(***************************************************************************)
(* prepare_dataset, filter_rare_categories and the library calls of main() *)
(***************************************************************************)
Abs(x) == IF x < 0 THEN -x ELSE x

\* pd.DataFrame(dados) with the derived columns; a row keeps its index label,
\* the position of its record in dados. abs_valor stands for log1p(|valor|).
prepare_dataset(d) ==
  LET frame == [i \in 1..Len(d) |->
                  [index |-> i - 1,
                   descricao_norm |-> normalize_description(d[i].descricao),
                   categoria |-> d[i].categoria,
                   tipo |-> d[i].tipo,
                   banco |-> d[i].banco,
                   metodo |-> d[i].metodo,
                   abs_valor |-> Abs(d[i].valor)]]
      described == SelectSeq(frame, LAMBDA r : Len(r.descricao_norm) > 0)
      labelled == SelectSeq(described,
                            LAMBDA r : r.categoria # None /\ r.categoria # <<>>)
  IN [k \in 1..Len(labelled) |->
        [index |-> labelled[k].index,
         descricao_norm |-> labelled[k].descricao_norm,
         categoria |-> labelled[k].categoria,
         tipo |-> IF labelled[k].tipo \in {"PJ", "PF"} THEN labelled[k].tipo ELSE "PJ",
         banco |-> labelled[k].banco,
         metodo |-> labelled[k].metodo,
         sample_weight |-> IF labelled[k].metodo = "manual" THEN 3 ELSE 1,
         abs_valor |-> labelled[k].abs_valor]]

Column(frame, col) == [k \in 1..Len(frame) |-> frame[k][col]]

CountOf(y, c) == Cardinality({k \in 1..Len(y) : y[k] = c})

\* filter_rare_categories(df, tipo_col, cat_col, min_samples)
filter_rare_categories(frame, tipo_col, cat_col, min_samples) ==
  LET cats == Column(frame, cat_col)
  IN SelectSeq(frame, LAMBDA r : CountOf(cats, r[cat_col]) >= min_samples)

\* the order of str: code point order, on the upper case letters of the labels
CharOrd(c) == CHOOSE i \in DOMAIN UpperLetters : UpperLetters[i] = c

RECURSIVE StrLess(_, _)
StrLess(a, b) ==
  IF a = <<>> THEN b # <<>>
  ELSE IF b = <<>> THEN FALSE
  ELSE IF Head(a) = Head(b) THEN StrLess(Tail(a), Tail(b))
  ELSE CharOrd(Head(a)) < CharOrd(Head(b))

\* sorted(.unique().tolist()), np.unique
RECURSIVE SortedUnique(_)
SortedUnique(S) ==
  IF S = {} THEN <<>>
  ELSE LET m == CHOOSE x \in S : \A z \in S \ {x} : StrLess(x, z)
       IN <<m>> \o SortedUnique(S \ {m})

\* list(np.unique(y_tipo)): the types present, in the order of str
UniqueTipos(y) == SelectSeq(<<"PF", "PJ">>, LAMBDA t : t \in Range(y))

\* the row counts train_test_split(test_size=TEST_SIZE) produces from n rows:
\* n_test = ceil(TEST_SIZE * n), n_train = n - n_test
SplitSizes(n) ==
  LET n_test == (n + TEST_SIZE_DEN - 1) \div TEST_SIZE_DEN
  IN [n_train |-> n - n_test, n_test |-> n_test]

\* train_test_split(..., stratify=y) raises ValueError
SplitRaises(y) ==
  LET classes == Range(y)
      sizes == SplitSizes(Len(y))
  IN \/ sizes.n_train = 0
     \/ \E c \in classes : CountOf(y, c) < 2
     \/ sizes.n_train < Cardinality(classes)
     \/ sizes.n_test < Cardinality(classes)

\* SGDClassifier.fit raises ValueError on fewer than two classes
FitRaises(y) == Cardinality(Range(y)) < 2

\* one row of X_full: the TF-IDF block is a function of the row's normalised
\* description, the bank block is encode_banco, the numeric block log1p(|valor|);
\* src is the index label of the df row the features were computed from
FeatureRow(r) ==
  [src |-> r.index,
   tfidf |-> r.descricao_norm,
   banco |-> encode_banco(r.banco, BANCOS_CONHECIDOS),
   valor |-> r.abs_valor]

\* X_full[index]: rows taken by position, IndexError outside the matrix
IndexRaises(X, index) == \E k \in 1..Len(index) : index[k] >= Len(X)
TakeRows(X, index) == [k \in 1..Len(index) |-> X[index[k] + 1]]

WriteFile(fs, name, content) ==
  [n \in DOMAIN fs \cup {name} |-> IF n = name THEN content ELSE fs[n]]

ModelFile(m) == IF m = "tipo" THEN "categorizer_tipo.onnx"
                ELSE IF m = "pj" THEN "categorizer_pj.onnx"
                ELSE "categorizer_pf.onnx"

TipoOf(s) == IF s = "pj" THEN "PJ" ELSE "PF"

(***************************************************************************)
(* main(), one action per stage                                            *)
(***************************************************************************)
MaxRuns == 2

Init == FnIdle /\ MainStart(1, NoFiles)

\* sys.exit(1), or an exception nothing catches: the interpreter exits with 1
Abort(err) ==
  /\ pc' = "exited"
  /\ exit_code' = 1
  /\ error' = err

\* fetch_training_data: requests.ConnectionError (lines 121-124)
FetchConnectionError ==
  /\ pc = "start"
  /\ fetch' = "conn_error"
  /\ Abort("")
  /\ UNCHANGED <<run, files0, dados, df, X_full, df_sub, X_sub, labels, clf, split,
                 exported, files, written>>
  /\ UNCHANGED fnvars

\* fetch_training_data: requests.HTTPError from raise_for_status (lines 125-127)
FetchHTTPError ==
  /\ pc = "start"
  /\ fetch' = "http_error"
  /\ Abort("")
  /\ UNCHANGED <<run, files0, dados, df, X_full, df_sub, X_sub, labels, clf, split,
                 exported, files, written>>
  /\ UNCHANGED fnvars

\* fetch_training_data returns data["dados"]
FetchOk ==
  /\ pc = "start"
  /\ \E d \in Datasets : dados' = d
  /\ fetch' = "ok"
  /\ pc' = "check_total"
  /\ UNCHANGED <<run, files0, df, X_full, df_sub, X_sub, labels, clf, split, exported,
                 files, written, exit_code, error>>
  /\ UNCHANGED fnvars

\* lines 264-267 with the per-class threshold in place of the total one
CheckTotal_WrongThreshold ==
  /\ pc = "check_total"
  /\ IF Len(dados) < MIN_SAMPLES_PER_CLASS
     THEN Abort("")
     ELSE pc' = "prepare" /\ UNCHANGED <<exit_code, error>>
  /\ UNCHANGED <<run, files0, fetch, dados, df, X_full, df_sub, X_sub, labels, clf,
                 split, exported, files, written>>
  /\ UNCHANGED fnvars

\* lines 264-267
CheckTotal ==
  /\ pc = "check_total"
  /\ IF Len(dados) < MIN_TOTAL_SAMPLES
     THEN Abort("")
     ELSE pc' = "prepare" /\ UNCHANGED <<exit_code, error>>
  /\ UNCHANGED <<run, files0, fetch, dados, df, X_full, df_sub, X_sub, labels, clf,
                 split, exported, files, written>>
  /\ UNCHANGED fnvars

\* line 270
PrepareDataset ==
  /\ pc = "prepare"
  /\ df' = prepare_dataset(dados)
  /\ pc' = "features"
  /\ UNCHANGED <<run, files0, fetch, dados, X_full, df_sub, X_sub, labels, clf, split,
                 exported, files, written, exit_code, error>>
  /\ UNCHANGED fnvars

\* lines 274-298: fit_transform raises ValueError on an empty vocabulary
BuildFeatures ==
  /\ pc = "features"
  /\ IF Len(df) = 0
     THEN Abort("ValueError") /\ UNCHANGED X_full
     ELSE /\ X_full' = [k \in 1..Len(df) |-> FeatureRow(df[k])]
          /\ pc' = "vocabulary"
          /\ UNCHANGED <<exit_code, error>>
  /\ UNCHANGED <<run, files0, fetch, dados, df, df_sub, X_sub, labels, clf, split,
                 exported, files, written>>
  /\ UNCHANGED fnvars

\* lines 301-315
SaveVocabulary ==
  /\ pc = "vocabulary"
  /\ files' = WriteFile(files, "vocabulary.json",
                        [bancos |-> BANCOS_CONHECIDOS,
                         banco_size |-> Len(BANCOS_CONHECIDOS),
                         numeric_size |-> 1])
  /\ written' = Append(written, "vocabulary.json")
  /\ pc' = "tipo"
  /\ UNCHANGED <<run, files0, fetch, dados, df, X_full, df_sub, X_sub, labels, clf,
                 split, exported, exit_code, error>>
  /\ UNCHANGED fnvars

\* lines 323-337
TrainTipo ==
  /\ pc = "tipo"
  /\ LET y_tipo == Column(df, "tipo")
     IN IF SplitRaises(y_tipo) \/ FitRaises(y_tipo)
        THEN Abort("ValueError") /\ UNCHANGED <<clf, split>>
        ELSE /\ clf' = [clf EXCEPT !["tipo"] = <<"fitted", "tipo">>]
             /\ split' = [split EXCEPT !["tipo"] = SplitSizes(Len(y_tipo))]
             /\ pc' = "pj"
             /\ UNCHANGED <<exit_code, error>>
  /\ UNCHANGED <<run, files0, fetch, dados, df, X_full, df_sub, X_sub, labels,
                 exported, files, written>>
  /\ UNCHANGED fnvars

\* lines 345-375 (s = "pj") and 383-413 (s = "pf"): what the block leaves in
\* df_s, X_s, s_labels, clf_s, the split it made and the exception it raised
SubModelOutcome(s) ==
  LET typed == SelectSeq(df, LAMBDA r : r.tipo = TipoOf(s))
      d == filter_rare_categories(typed, "tipo", "categoria", MIN_SAMPLES_PER_CLASS)
      index == Column(d, "index")
      y == Column(d, "categoria")
      lab == SortedUnique(Range(y))
      skipped == [df_s |-> d, X_s |-> None, s_labels |-> <<>>, clf_s |-> None,
                  split_s |-> None, raised |-> ""]
  IN IF Len(d) >= MIN_SUBMODEL_ROWS
     THEN IF IndexRaises(X_full, index)
          THEN [skipped EXCEPT !.raised = "IndexError"]
          ELSE LET X == TakeRows(X_full, index)
                   indexed == [skipped EXCEPT !.X_s = X, !.s_labels = lab]
               IN IF Len(lab) >= 2
                  THEN IF SplitRaises(y)
                       THEN [indexed EXCEPT !.raised = "ValueError"]
                       ELSE [indexed EXCEPT !.clf_s = <<"fitted", s>>,
                                            !.split_s = SplitSizes(Len(y))]
                  ELSE indexed
     ELSE skipped

TrainSub(s, next) ==
  /\ pc = s
  /\ LET o == SubModelOutcome(s)
     IN /\ df_sub' = [df_sub EXCEPT ![s] = o.df_s]
        /\ X_sub' = [X_sub EXCEPT ![s] = o.X_s]
        /\ labels' = [labels EXCEPT ![s] = o.s_labels]
        /\ clf' = [clf EXCEPT ![s] = o.clf_s]
        /\ split' = [split EXCEPT ![s] = o.split_s]
        /\ IF o.raised # ""
           THEN Abort(o.raised)
           ELSE pc' = next /\ UNCHANGED <<exit_code, error>>
  /\ UNCHANGED <<run, files0, fetch, dados, df, X_full, exported, files, written>>
  /\ UNCHANGED fnvars

TrainPJ == TrainSub("pj", "pf")
TrainPF == TrainSub("pf", "export_tipo")

\* the export with the append outside the "is not None" test
Export_AlwaysAppend(m, at, next) ==
  /\ pc = at
  /\ IF clf[m] # None
     THEN /\ files' = WriteFile(files, ModelFile(m), [model |-> clf[m]])
          /\ written' = Append(written, ModelFile(m))
     ELSE UNCHANGED <<files, written>>
  /\ exported' = Append(exported, ModelFile(m))
  /\ pc' = next
  /\ UNCHANGED <<run, files0, fetch, dados, df, X_full, df_sub, X_sub, labels, clf,
                 split, exit_code, error>>
  /\ UNCHANGED fnvars

\* export_to_onnx (lines 226-249) and the append that follows its return
Export(m, at, next) ==
  /\ pc = at
  /\ IF clf[m] # None
     THEN /\ files' = WriteFile(files, ModelFile(m), [model |-> clf[m]])
          /\ written' = Append(written, ModelFile(m))
          /\ exported' = Append(exported, ModelFile(m))
     ELSE UNCHANGED <<files, written, exported>>
  /\ pc' = next
  /\ UNCHANGED <<run, files0, fetch, dados, df, X_full, df_sub, X_sub, labels, clf,
                 split, exit_code, error>>
  /\ UNCHANGED fnvars

\* lines 424-426: clf_tipo is exported unconditionally
ExportTipo == Export("tipo", "export_tipo", "export_pj")
\* lines 429-432
ExportPJ == Export("pj", "export_pj", "export_pf")
\* lines 435-438
ExportPF == Export("pf", "export_pf", "label_maps")

\* lines 443-452
SaveLabelMaps ==
  /\ pc = "label_maps"
  /\ files' = WriteFile(files, "label_maps.json",
                        [tipo |-> <<"PF", "PJ">>, pj |-> labels["pj"], pf |-> labels["pf"]])
  /\ written' = Append(written, "label_maps.json")
  /\ pc' = "report"
  /\ UNCHANGED <<run, files0, fetch, dados, df, X_full, df_sub, X_sub, labels, clf,
                 split, exported, exit_code, error>>
  /\ UNCHANGED fnvars

\* the "pj" and "pf" entries of training_report["models"] (lines 469-482);
\* int() truncates, and TEST_SIZE * n is not negative
SubModelReport(s) ==
  LET n == Len(df_sub[s])
  IN [classes |-> labels[s],
      n_train |-> IF n > 0 THEN n - (n \div TEST_SIZE_DEN) ELSE 0,
      n_test |-> IF n > 0 THEN n \div TEST_SIZE_DEN ELSE 0]

\* lines 457-495, and the return of main(): exit status 0
SaveReport ==
  /\ pc = "report"
  /\ files' = WriteFile(files, "training_report.json",
       [total_samples |-> Len(df),
        manual_corrections |-> Len(SelectSeq(df, LAMBDA r : r.metodo = "manual")),
        models |-> [tipo |-> [classes |-> UniqueTipos(Column(df, "tipo")),
                              n_train |-> split["tipo"].n_train,
                              n_test |-> split["tipo"].n_test],
                    pj |-> SubModelReport("pj"),
                    pf |-> SubModelReport("pf")],
        exported_files |-> exported])
  /\ written' = Append(written, "training_report.json")
  /\ pc' = "exited"
  /\ exit_code' = 0
  /\ UNCHANGED <<run, files0, fetch, dados, df, X_full, df_sub, X_sub, labels, clf,
                 split, exported, error>>
  /\ UNCHANGED fnvars

\* the script is run again, over the output directory the last run left
StartRun ==
  /\ pc = "exited"
  /\ run < MaxRuns
  /\ pc' = "start"
  /\ run' = run + 1
  /\ fetch' = "none"
  /\ dados' = <<>>
  /\ df' = <<>>
  /\ X_full' = <<>>
  /\ df_sub' = [s \in Models |-> <<>>]
  /\ X_sub' = [s \in Models |-> None]
  /\ labels' = [s \in Models |-> <<>>]
  /\ clf' = [m \in Models \cup {"tipo"} |-> None]
  /\ split' = [m \in Models \cup {"tipo"} |-> None]
  /\ exported' = <<>>
  /\ written' = <<>>
  /\ exit_code' = -1
  /\ error' = ""
  /\ files0' = files
  /\ UNCHANGED files
  /\ UNCHANGED fnvars

Next ==
  \/ FetchConnectionError
  \/ FetchHTTPError
  \/ FetchOk
  \/ CheckTotal
  \/ PrepareDataset
  \/ BuildFeatures
  \/ SaveVocabulary
  \/ TrainTipo
  \/ TrainPJ
  \/ TrainPF
  \/ ExportTipo
  \/ ExportPJ
  \/ ExportPF
  \/ SaveLabelMaps
  \/ SaveReport
  \/ StartRun

Spec == Init /\ [][Next]_vars

(***************************************************************************)
(* Properties                                                              *)
(***************************************************************************)
Completed == pc = "exited" /\ exit_code = 0

\* the rows of sub-model s that survived filter_rare_categories meet both
\* thresholds: at least 10 rows, at least 2 distinct categories
MeetsThresholds(s) ==
  /\ Len(df_sub[s]) >= 10
  /\ Cardinality(Range(Column(df_sub[s], "categoria"))) >= 2

\* C1: after a completed run, for each sub-model s the label list of
\* label_maps.json and the classes, n_train and n_test of training_report.json
\* are non-empty / non-zero exactly when the surviving rows of s met both
\* thresholds; a skipped sub-model has an empty label list.
C1_ArtifactsIffTrained ==
  Completed =>
    \A s \in Models :
      LET lm == files["label_maps.json"][s]
          rep == files["training_report.json"].models[s]
      IN /\ (lm # <<>>) <=> MeetsThresholds(s)
         /\ (rep.classes # <<>>) <=> MeetsThresholds(s)
         /\ (rep.n_train # 0) <=> MeetsThresholds(s)
         /\ (rep.n_test # 0) <=> MeetsThresholds(s)

\* C2: after every completed run, categorizer_<s>.onnx is in the output
\* directory exactly when classifier s was trained in that run, whatever
\* earlier runs left there.
C2_ModelFileIffTrained ==
  Completed =>
    \A s \in Models : (ModelFile(s) \in DOMAIN files) <=> (clf[s] # None)

\* C3: the row selection never addresses a row outside X_full, and row k of
\* X_pj (X_pf) is the row of X_full computed from the record whose category
\* and weight are at position k of y_pj / w_pj (y_pf / w_pf).
C3_RowsAligned ==
  /\ error # "IndexError"
  /\ \A s \in Models :
       Len(X_sub[s]) >= MIN_SUBMODEL_ROWS =>
         \A k \in 1..Len(X_sub[s]) : X_sub[s][k].src = df_sub[s][k].index

FetchFailed ==
  \/ fetch \in {"conn_error", "http_error"}
  \/ fetch = "ok" /\ Len(dados) < MIN_TOTAL_SAMPLES

\* C4: a run whose fetch ends in a connection error or an HTTP error status,
\* or returns fewer than MIN_TOTAL_SAMPLES records, goes no further than the
\* size check, exits with a non-zero status and leaves the output directory
\* as it found it, having written no file.
C4_FailedFetchWritesNothing ==
  FetchFailed =>
    /\ pc \in {"check_total", "exited"}
    /\ pc = "exited" => exit_code = 1
    /\ written = <<>>
    /\ files = files0

C4_Witness ==
  /\ fetch = "ok" /\ Len(dados) = MIN_TOTAL_SAMPLES - 1
  /\ pc = "exited" /\ exit_code = 1
  /\ "training_report.json" \in DOMAIN files

\* C5: normalize_description is idempotent.
C5_Idempotent == step = "twice" => res2 = res

GatewayLoja == GATEWAY \o <<"L","O","J","A">>

\* C6 as claimed: normalize_description("PAG*LOJA123 12/05 4567890123") is
\* "GATEWAY*LOJA".
C6_ScenarioC_Claimed == (arg = ScenarioC /\ step = "once") => res = GatewayLoja

\* C6: normalize_description("PAG*LOJA123 12/05 4567890123") is
\* "GATEWAY*LOJA123": the prefix is rewritten, the date and the ten-digit run
\* are removed, the spaces trimmed, and the digits 123 that follow LOJA stay.
C6_ScenarioC ==
  (arg = ScenarioC /\ step = "once") => res = GatewayLoja \o <<"1","2","3">>

C6_Witness == arg = ScenarioC /\ step = "once"

\* the indices of the known bank names found in the upper-cased,
\* diacritic-stripped bank string (the empty string when it is absent)
BankMatches(b) ==
  LET text == IF b = None THEN <<>> ELSE StripMarks(NFD(Upper(b)))
  IN {i \in 1..Len(BANCOS_CONHECIDOS) : IsSubstring(BANCOS_CONHECIDOS[i], text)}

\* C7: encode_banco returns a vector of the list's length of zeros and at
\* most one 1, at the smallest index whose bank name is a substring of the
\* upper-cased, diacritic-stripped bank string; all zeros exactly when no
\* name is.
C7_EncodeBanco ==
  step = "once" =>
    LET ones == {i \in DOMAIN res : res[i] = 1}
        m == BankMatches(arg)
    IN /\ Len(res) = Len(BANCOS_CONHECIDOS)
       /\ \A i \in DOMAIN res : res[i] \in {0, 1}
       /\ Cardinality(ones) <= 1
       /\ ones = {} <=> m = {}
       /\ \A i \in ones : i \in m /\ \A j \in m : i <= j

C7_Witness ==
  /\ step = "once"
  /\ arg = <<"i","t","a","U+00FA"," ","n","u","b","a","n","k">>
  /\ res = [i \in 1..Len(BANCOS_CONHECIDOS) |-> IF i = 1 THEN 1 ELSE 0]

MetadataFiles == {"vocabulary.json", "label_maps.json", "training_report.json"}

\* C8: a run whose fetch returned at least MIN_TOTAL_SAMPLES records ends
\* with exit status 0 and has written vocabulary.json, categorizer_tipo.onnx,
\* label_maps.json and training_report.json; when both sub-models were
\* skipped, categorizer_tipo.onnx is the only model file written and the only
\* entry of exported_files.
C8_CompletesWithArtifacts ==
  (fetch = "ok" /\ Len(dados) >= MIN_TOTAL_SAMPLES /\ pc = "exited") =>
    /\ exit_code = 0
    /\ MetadataFiles \cup {ModelFile("tipo")} \subseteq Range(written)
    /\ (\A s \in Models : clf[s] = None) =>
         /\ Range(written) \ MetadataFiles = {ModelFile("tipo")}
         /\ files["training_report.json"].exported_files = <<ModelFile("tipo")>>

\* C9: for each trained sub-model the reported n_train and n_test are the
\* sizes of the partitions the stratified split produced, and they add up to
\* the number of surviving rows.
C9_ReportedSplitSizes ==
  Completed =>
    \A s \in Models :
      clf[s] # None =>
        LET rep == files["training_report.json"].models[s]
        IN /\ rep.n_train = split[s].n_train
           /\ rep.n_test = split[s].n_test
           /\ rep.n_train + rep.n_test = Len(df_sub[s])

WriteOrder ==
  <<"vocabulary.json", "categorizer_tipo.onnx", "categorizer_pj.onnx",
    "categorizer_pf.onnx", "label_maps.json", "training_report.json">>

Rank(f) == CHOOSE i \in DOMAIN WriteOrder : WriteOrder[i] = f

\* C10: a run writes its files in the order of WriteOrder, each at most once;
\* once it has written training_report.json it has written vocabulary.json
\* and label_maps.json before, and exported_files lists exactly the model
\* files the run wrote, all of them written before the report.
C10_WriteOrder ==
  /\ \A i, j \in DOMAIN written : i < j => Rank(written[i]) < Rank(written[j])
  /\ "training_report.json" \in Range(written) =>
       /\ written[Len(written)] = "training_report.json"
       /\ {"vocabulary.json", "label_maps.json"} \subseteq Range(written)
       /\ files["training_report.json"].exported_files
            = SelectSeq(written, LAMBDA f : f \notin MetadataFiles)

C10_Witness == Completed /\ written = WriteOrder

====
